---- MODULE Spec2Model ----
(***************************************************************************)
(* WimPatcher: the edition pruning loop, the WIM mount lifecycle, the      *)
(* patch pipeline and the --list-editions mode (wimpatcher.py,             *)
(* modules/wim.py, modules/iso.py, modules/usb.py), the parsing of DISM's  *)
(* listing, the walk of add_files_to_iso, the progress reader thread       *)
(* (modules/utils.py) and Installer.install                                *)
(* (installers/generic_installer.py), modelled as sequential programs with *)
(* a program counter, the reader thread and the external process as        *)
(* further components.  External commands (DISM, diskpart, robocopy,       *)
(* powershell) are the environment: each call either does its work or      *)
(* reports an error, and the code never reads their exit status.           *)
(***************************************************************************)
EXTENDS Integers, Sequences, FiniteSets, TLC

\* ------------------------------------------------------------------ bounds
\* Largest number of editions in the image.
MaxEditions == 3
\* The counter of delete operations issued by one call saturates here.
MaxDeletes == 4
\* Number of direct calls of delete_other_editions made by the harness.
MaxCalls == 2
\* Deepest level of the directory trees handed to add_files_to_iso.
MaxDepth == 2
\* Most lines of progress text an external process prints.
MaxLines == 3
\* Lines the pipe between the process and the reader holds before a write blocks.
PipeCapacity == 1

\* ------------------------------------------------------------------ data
\* Edition names are unique within one image; sizes need not be.
NamePool == <<"A", "B", "C", "D", "E", "F">>
Names == { NamePool[i] : i \in 1..MaxEditions }
Sizes == {10, 20}

\* One edition as stored in the image (its index is its position).
StoredEdition(n, s) == [Name |-> n, Description |-> n, Size |-> s]

\* No dictionary (the variable is unbound).
NoEdition == [Index |-> 0, Name |-> "", Description |-> "", Size |-> 0]

Min(a, b) == IF a < b THEN a ELSE b

\* Image contents: up to MaxEditions editions with pairwise distinct names.
Contents(sizes) ==
  { w \in UNION { [1..n -> { StoredEdition(nm, sz) : nm \in Names, sz \in sizes }] : n \in 0..MaxEditions } :
      \A i, j \in DOMAIN w : i # j => w[i].Name # w[j].Name }

\* Strings that are indexed or compared by case are sequences of characters.
Upper(c) == CASE c = "c" -> "C" [] c = "e" -> "E" [] OTHER -> c

\* Values of --usb: a drive letter in either case, with or without the colon.
UsbArgs == { <<"C">>, <<"c">>, <<"E">>, <<"e">>, <<"C", ":">>, <<"E", ":">> }

\* Drive letters of the volumes of the machine; the home directory is on C.
Volumes == {"C", "E"}

VARIABLES
  pc,               \* position of the main thread
  error,            \* the exception that ended the job, or "none"
  choice,           \* Operations member chosen by main
  usb,              \* args.usb
  Edition,          \* CONFIG["general"]["Edition"]
  source,           \* the editions of install.wim inside the source ISO
  list_editions,    \* args.list_editions: "" when not given, else the file's kind
  wim,              \* the editions stored in the working install.wim, in index order
  wim_file,         \* the working install.wim: "absent", "complete" or "partial"
  old_wim,          \* install.wim.old: "absent" or "complete"
  iso_mounted,      \* the source ISO is mounted as a volume
  wim_mounted,      \* DISM holds the image mounted at the mount directory
  mount_dir,        \* the temporary mount directory exists
  raised,           \* exception raised inside the try block of patch_wim, or "none"
  format_arg,       \* the drive letter handed to format_usb_drive, or "none"
  formatted,        \* volumes diskpart has cleaned and formatted
  volume_files,     \* volumes robocopy has written the ISO's files to
  output_written,   \* the output ISO file has been written
  log,              \* the operations called so far, in order (deletions are counted apart)
  wim_info,         \* patch_wim: the listing read before selection
  edition_to_keep,  \* delete_other_editions: the dictionary to keep
  new_info,         \* delete_other_editions: the listing read by the loop
  index_to_remove,  \* delete_other_editions: the index handed to delete_wim_index
  deletes,          \* delete operations issued by the current call (saturating)
  calls,            \* direct calls made by the harness
  failures,         \* the commands that reported an error so far (never read by the code)
  held_elsewhere,   \* the image is mounted at a mount path handed out by an earlier call
  layout,           \* how DISM lays out the listing it prints: padding and a damaged line
  stdout,           \* list_wim_indexes: result.stdout, a sequence of characters
  parsed,           \* list_wim_indexes: the dictionaries returned from the text
  installer_file,   \* Installer: what is at self.installer_file
  install_location, \* Installer: what is at self.install_location
  run_once,         \* Installer: program names registered in the image's RunOnce key
  at_entry,         \* Installer: both paths as they were when install was called
  displayed,        \* main: the listing handed to display_wim_editions by --list-editions
  tree,             \* add_files_to_iso: the directory tree under source_path
  to_walk,          \* add_files_to_iso: the directories os.walk has still to yield
  added,            \* add_files_to_iso: the entries added to the ISO so far, in order
  operation,        \* the function that runs an external process with a progress reader
  proc,             \* the external process: its state, lines left to print, exit status
  pipe,             \* lines written to proc.stdout and not yet read
  thread,           \* position of stdout_thread (show_progress)
  shown             \* lines of progress show_progress has printed

jobVars == <<choice, usb, Edition, source, list_editions>>
fileVars == <<wim_file, old_wim>>
mountVars == <<iso_mounted, wim_mounted, mount_dir>>
usbVars == <<format_arg, formatted, volume_files>>
pruneVars == <<edition_to_keep, new_info, index_to_remove, deletes>>
parseVars == <<layout, stdout, parsed>>
installVars == <<installer_file, install_location, run_once, at_entry>>
walkVars == <<tree, to_walk, added>>
progressVars == <<operation, proc, pipe, thread, shown>>
harnessVars == <<held_elsewhere, parseVars, installVars, displayed, walkVars, progressVars>>

vars == <<pc, error, jobVars, wim, fileVars, mountVars, raised, usbVars, output_written,
          log, wim_info, pruneVars, calls, failures, harnessVars>>

\* A listing layout: the padding DISM puts around the separator, and the one line of
\* one edition block that lacks the separator ("zero") or holds a second one ("two").
NoLayout == [pad |-> <<>>, block |-> 0, line |-> 0, kind |-> "none"]

\* What a path of the file system holds: nothing, a folder with files at relative
\* paths, or a regular file (an archive with members when patool can extract it).
RelPaths == {"setup.exe", "data/app.ini"}
Missing == [kind |-> "missing", files |-> {}, archive |-> FALSE]
Folder(fs) == [kind |-> "dir", files |-> fs, archive |-> FALSE]
File(fs, a) == [kind |-> "file", files |-> fs, archive |-> a]

\* A directory tree: the paths (sequences of names, relative to source_path) of its
\* directories and of its files, and the order in which a directory lists its entries.
NoTree == [dirs |-> {}, files |-> {}, descending |-> FALSE]

\* No external process has been started.
NoProcess == [state |-> "none", left |-> 0, status |-> "none"]

ProgressIdle ==
  /\ operation = "none"
  /\ proc = NoProcess
  /\ pipe = 0
  /\ thread = "not_started"
  /\ shown = 0

\* Outside the direct-call harnesses their variables keep these values.
HarnessIdle ==
  /\ held_elsewhere = FALSE
  /\ layout = NoLayout
  /\ stdout = <<>>
  /\ parsed = <<>>
  /\ installer_file = Missing
  /\ install_location = Missing
  /\ run_once = {}
  /\ at_entry = [installer |-> Missing, location |-> Missing]
  /\ displayed = <<>>
  /\ tree = NoTree
  /\ to_walk = <<>>
  /\ added = <<>>
  /\ ProgressIdle

\* ------------------------------------------------------------------ Edition Registry
\* list_wim_indexes on a well-formed image: one dictionary per edition, Index = position.
list_wim_indexes(w) ==
  [i \in 1..Len(w) |-> [Index |-> i, Name |-> w[i].Name,
                        Description |-> w[i].Description, Size |-> w[i].Size]]

\* ------------------------------------------------------------------ Edition Pruner
\* DISM /Delete-Image: the edition at the index goes, higher indexes move down by one.
DeleteImage(w, index) ==
  IF index \in 1..Len(w)
  THEN [i \in 1..(Len(w) - 1) |-> IF i < index THEN w[i] ELSE w[i + 1]]
  ELSE w

\* Mutant: the kept dictionary keeps the index it had in the first listing.
KeepCachedIndex(keep) == keep

\* edition_to_keep["Index"] = "1"
KeepWithIndexOne(keep) == [keep EXCEPT !.Index = 1]

\* Positions of the dictionaries that differ from the kept one (full dict comparison).
Others(info, keep) == { i \in 1..Len(info) : info[i] # keep }

\* Mutant: the loop runs until the listing is empty.
LoopUntilEmpty(info) == Len(info) # 0

\* while len(new_info := list_wim_indexes(wim_file)) != 1
LoopCondition(info) == Len(info) # 1

\* next(info["Index"] for info in new_info if info != edition_to_keep)
FirstOther(info, keep) == info[CHOOSE i \in Others(info, keep) : \A j \in Others(info, keep) : i <= j].Index

\* Mutant: the listing is read once and kept across the deletions.
CachedInfo(w, cached) == IF cached = <<>> THEN list_wim_indexes(w) ELSE cached

\* Line 93: new_info := list_wim_indexes(wim_file), evaluated at every pass of the loop.
NewInfo(w, cached) == list_wim_indexes(w)

\* Line 91: the kept dictionary gets Index "1" before the loop.
DeleteOtherEditionsEntry ==
  /\ pc = "prune_entry"
  /\ edition_to_keep' = KeepWithIndexOne(edition_to_keep)
  /\ deletes' = 0
  /\ log' = Append(log, "delete_other_editions")
  /\ pc' = "prune_loop"
  /\ UNCHANGED <<error, jobVars, harnessVars, failures, wim, fileVars, mountVars, raised,
                 usbVars, output_written, wim_info, new_info, index_to_remove, calls>>

\* Lines 93-94: re-query the listing, test the loop condition, pick the index.
\* next() on an exhausted generator raises StopIteration.
DeleteOtherEditionsLoop ==
  /\ pc = "prune_loop"
  /\ LET info == NewInfo(wim, new_info) IN
       /\ new_info' = info
       /\ IF LoopCondition(info)
          THEN IF Others(info, edition_to_keep) # {}
               THEN /\ index_to_remove' = FirstOther(info, edition_to_keep)
                    /\ pc' = "prune_delete"
                    /\ error' = error
               ELSE /\ pc' = "failed"
                    /\ error' = "StopIteration"
                    /\ index_to_remove' = index_to_remove
          ELSE /\ pc' = "prune_ret"
               /\ UNCHANGED <<error, index_to_remove>>
  /\ UNCHANGED <<jobVars, harnessVars, failures,
                 wim, fileVars, mountVars, raised, usbVars, output_written,
                 log, wim_info, edition_to_keep, deletes, calls>>

\* Line 98 and delete_wim_index: DISM deletes the edition or reports an error;
\* its exit status is not read.
DeleteWimIndex ==
  /\ pc = "prune_delete"
  /\ \E ok \in BOOLEAN :
       /\ wim' = IF ok THEN DeleteImage(wim, index_to_remove) ELSE wim
       /\ failures' = IF ok THEN failures ELSE failures \cup {"delete_wim_index"}
  /\ deletes' = Min(deletes + 1, MaxDeletes)
  /\ pc' = "prune_loop"
  /\ UNCHANGED <<error, jobVars, harnessVars, fileVars, mountVars, raised, usbVars, output_written,
                 log, wim_info, edition_to_keep, new_info, index_to_remove, calls>>

\* ------------------------------------------------------------------ direct calls of the pruner
\* The dictionaries a caller may hand to delete_other_editions for image w: one of
\* the listing, or one that is not in it by (name, size).
KeepArguments(w) ==
  { list_wim_indexes(w)[i] : i \in 1..Len(w) }
  \cup { [Index |-> 1, Name |-> n, Description |-> n, Size |-> s] : n \in Names, s \in Sizes }

PruneInit ==
  /\ pc = "prune_entry"
  /\ error = "none"
  /\ choice = "none"
  /\ list_editions = ""
  /\ usb = <<>>
  /\ Edition = ""
  /\ source = <<>>
  /\ wim \in { w \in Contents(Sizes) : Len(w) >= 1 }
  /\ wim_file = "complete"
  /\ old_wim = "absent"
  /\ iso_mounted = FALSE
  /\ wim_mounted = FALSE
  /\ mount_dir = FALSE
  /\ raised = "none"
  /\ format_arg = "none"
  /\ formatted = {}
  /\ volume_files = {}
  /\ output_written = FALSE
  /\ log = <<>>
  /\ wim_info = list_wim_indexes(wim)
  /\ edition_to_keep \in KeepArguments(wim)
  /\ new_info = <<>>
  /\ index_to_remove = 0
  /\ deletes = 0
  /\ calls = 1
  /\ failures = {}
  /\ HarnessIdle

\* The caller lists the pruned image and calls again with the same dictionary.
CallAgain ==
  /\ pc = "prune_ret"
  /\ calls < MaxCalls
  /\ calls' = calls + 1
  /\ wim_info' = list_wim_indexes(wim)
  /\ pc' = "prune_entry"
  /\ UNCHANGED <<error, jobVars, harnessVars, failures,
                 wim, fileVars, mountVars, raised, usbVars, output_written,
                 log, pruneVars>>

PruneNext ==
  \/ DeleteOtherEditionsEntry
  \/ DeleteOtherEditionsLoop
  \/ DeleteWimIndex
  \/ CallAgain

PruneSpec == PruneInit /\ [][PruneNext]_vars

FairPruneSpec == PruneSpec /\ WF_vars(PruneNext)

\* ------------------------------------------------------------------ Media Provisioner
\* pathlib.Path.home().drive
home_drive == <<"C", ":">>

\* create_bootable_usb: drive_path = f"{drive_letter}:"
drive_path == usb \o <<":">>

\* The volume a path of the form <letter>: names, "none" for any other string.
VolumeOf(path) ==
  IF Len(path) = 2 /\ path[2] = ":" /\ Upper(path[1]) \in Volumes THEN Upper(path[1]) ELSE "none"

\* The volume diskpart selects for "select volume <letter>", "none" if there is none.
VolumeOfLetter(letter) == IF Upper(letter) \in Volumes THEN Upper(letter) ELSE "none"

\* if drive_path == home_drive
IsHomeDrive(path) == path = home_drive

\* Mutant: the refusal is reported and the drive is prepared all the same.
RefusedThenFormat == "format_usb_drive"

\* raise ValueError: the job ends.
Refused == "failed"

\* Mutant: the edition is selected after the image was mounted.
PatchWimMountsFirst == "mount_wim"

\* patch_wim: select_edition is called before mount_wim.
AfterListing == "select_edition"

\* main, lines 128-149: --list-editions goes its own way, by the kind of the file.
ListEditionsEntry(kind) ==
  CASE kind = ".iso" -> "list_mount_iso"
    [] kind = ".wim" -> "list_wim_indexes"
    [] OTHER         -> "failed"

\* main, lines 128-149 and 158-167: the list mode, or the dispatch on the operation.
Main ==
  /\ pc = "main"
  /\ pc' = IF list_editions # "" THEN ListEditionsEntry(list_editions)
           ELSE IF choice = "CREATE_CUSTOM_ISO" THEN "mount_iso" ELSE "prepare_usb_drive"
  /\ error' = IF list_editions = "other" THEN "SystemExit" ELSE error
  /\ UNCHANGED <<jobVars, harnessVars, failures,
                 wim, fileVars, mountVars, raised, usbVars, output_written,
                 log, wim_info, pruneVars, calls>>

\* prepare_usb_drive, lines 48-50.
PrepareUsbDrive ==
  /\ pc = "prepare_usb_drive"
  /\ IF IsHomeDrive(drive_path)
     THEN /\ pc' = Refused
          /\ error' = "SafetyViolation"
     ELSE /\ pc' = "format_usb_drive"
          /\ error' = error
  /\ UNCHANGED <<jobVars, harnessVars, failures,
                 wim, fileVars, mountVars, raised, usbVars, output_written,
                 log, wim_info, pruneVars, calls>>

\* prepare_usb_drive line 53 and format_usb_drive: diskpart is given drive_path[1].
FormatUsbDrive ==
  /\ pc = "format_usb_drive"
  /\ format_arg' = drive_path[2]
  /\ \E ok \in BOOLEAN :
       formatted' = IF ok /\ VolumeOfLetter(drive_path[2]) # "none"
                    THEN formatted \cup {VolumeOfLetter(drive_path[2])}
                    ELSE formatted
  /\ log' = Append(log, "format_usb_drive")
  /\ pc' = "mount_iso"
  /\ UNCHANGED <<error, jobVars, harnessVars, failures,
                 wim, fileVars, mountVars, raised, volume_files,
                 output_written, wim_info, pruneVars, calls>>

\* ------------------------------------------------------------------ extract_iso
\* extract_iso line 111 and mount_iso: powershell mounts the image or reports an error.
MountIso ==
  /\ pc = "mount_iso"
  /\ \E ok \in BOOLEAN : iso_mounted' = ok
  /\ log' = Append(log, "mount_iso")
  /\ pc' = "copy_files"
  /\ UNCHANGED <<error, jobVars, harnessVars, failures,
                 wim, fileVars, wim_mounted, mount_dir, raised, usbVars,
                 output_written, wim_info, pruneVars, calls>>

\* extract_iso lines 116-118: the finally clause runs with the exception of copy_files
\* pending.
ExtractFinally == "unmount_iso_raised"

\* extract_iso line 115 and copy_files: robocopy mirrors the mounted ISO into the
\* extract location (the temporary directory, or drive_path for a USB job) or reports
\* an error (not read), or the call itself raises before anything is copied.
CopyFiles ==
  /\ pc = "copy_files"
  /\ \E outcome \in {"ok", "error", "raise"} :
       LET dest == IF choice = "CREATE_BOOTABLE_USB" THEN VolumeOf(drive_path) ELSE "tmpdir"
           done == outcome = "ok" /\ iso_mounted /\ dest # "none"
       IN /\ wim' = IF done THEN source ELSE wim
          /\ wim_file' = IF done THEN "complete" ELSE wim_file
          /\ volume_files' = IF done /\ choice = "CREATE_BOOTABLE_USB"
                             THEN volume_files \cup {dest} ELSE volume_files
          /\ failures' = IF done THEN failures ELSE failures \cup {"copy_files"}
          /\ pc' = IF outcome = "raise" THEN ExtractFinally ELSE "unmount_iso"
  /\ log' = Append(log, "copy_files")
  /\ UNCHANGED <<error, jobVars, harnessVars, old_wim, mountVars, raised, format_arg, formatted,
                 output_written, wim_info, pruneVars, calls>>

\* extract_iso lines 116-118 and unmount_iso: powershell dismounts the image or reports
\* an error (not read); a pending exception of copy_files then leaves extract_iso.
UnmountIso ==
  /\ pc \in {"unmount_iso", "unmount_iso_raised"}
  /\ \E ok \in BOOLEAN : iso_mounted' = IF ok THEN FALSE ELSE iso_mounted
  /\ log' = Append(log, "unmount_iso")
  /\ IF pc = "unmount_iso_raised"
     THEN pc' = "failed" /\ error' = "OSError"
     ELSE pc' = "patch_wim" /\ error' = error
  /\ UNCHANGED <<jobVars, harnessVars, failures,
                 wim, fileVars, wim_mounted, mount_dir, raised, usbVars,
                 output_written, wim_info, pruneVars, calls>>

\* ------------------------------------------------------------------ Patch Pipeline
\* patch_wim lines 57-60.  On a missing install.wim DISM prints an error text, which
\* the parser either rejects (ValueError) or reads as no edition at all.
PatchWim ==
  /\ pc = "patch_wim"
  /\ log' = Append(log, "list_wim_indexes")
  /\ IF wim_file = "complete"
     THEN /\ wim_info' = list_wim_indexes(wim)
          /\ pc' = IF Len(wim) >= 1 THEN AfterListing ELSE "mount_wim"
          /\ error' = error
     ELSE \/ /\ wim_info' = <<>>
             /\ pc' = "mount_wim"
             /\ error' = error
          \/ /\ wim_info' = wim_info
             /\ pc' = "failed"
             /\ error' = "ParseError"
  /\ UNCHANGED <<jobVars, harnessVars, failures,
                 wim, fileVars, mountVars, raised, usbVars, output_written,
                 pruneVars, calls>>

\* display_wim_editions: the names of the listing (a later duplicate would win).
valid_indexes(info) == { info[i].Name : i \in 1..Len(info) }

\* valid_indexes[selected_edition]
Selection(info, name) == info[CHOOSE i \in 1..Len(info) : info[i].Name = name]

\* select_edition, lines 81-91.
SelectEdition ==
  /\ pc = "select_edition"
  /\ log' = Append(log, "select_edition")
  /\ IF Edition \in valid_indexes(wim_info)
     THEN /\ edition_to_keep' = Selection(wim_info, Edition)
          /\ pc' = "prune_entry"
          /\ error' = error
     ELSE /\ edition_to_keep' = edition_to_keep
          /\ pc' = "failed"
          /\ error' = "ConfigurationError"
  /\ UNCHANGED <<jobVars, harnessVars, failures,
                 wim, fileVars, mountVars, raised, usbVars, output_written,
                 wim_info, new_info, index_to_remove, deletes, calls>>

\* delete_other_editions and select_edition return to patch_wim, line 62.
SelectEditionReturn ==
  /\ pc = "prune_ret"
  /\ pc' = "mount_wim"
  /\ UNCHANGED <<error, jobVars, harnessVars, failures,
                 wim, fileVars, mountVars, raised, usbVars, output_written,
                 log, wim_info, pruneVars, calls>>

\* mount_wim lines 41-46: wait for DISM, join the reader thread, return the mount path.
MountWimReturns(mounted) == "customize"

\* patch_wim line 63 and mount_wim: the directory is made, DISM mounts index 1 or
\* reports an error (it does when the file or the index is missing, or when the image
\* is mounted at another path already), and the mount path is returned either way.
MountWim ==
  /\ pc = "mount_wim"
  /\ mount_dir' = TRUE
  /\ \E ok \in BOOLEAN :
       LET mounts == ok /\ wim_file = "complete" /\ Len(wim) >= 1 /\ ~held_elsewhere
       IN /\ wim_mounted' = mounts
          /\ failures' = IF mounts THEN failures ELSE failures \cup {"mount_wim"}
  /\ log' = Append(log, "mount_wim")
  /\ pc' = MountWimReturns(wim_mounted')
  /\ UNCHANGED <<error, jobVars, harnessVars, wim, fileVars, iso_mounted, raised, usbVars,
                 output_written, wim_info, pruneVars, calls>>

\* Mutant: an exception in the try block leaves patch_wim at once.
RaisedPropagates == "failed"

\* patch_wim lines 71-73: the finally clause runs whether the try block raised or not.
Finally == "unmount_wim"

\* patch_wim lines 66-67: test.txt is written under the mount path, or open/write raises.
Customize ==
  /\ pc = "customize"
  /\ log' = Append(log, "customize")
  /\ \E ok \in BOOLEAN :
       IF ok THEN pc' = "optimize_wim_image" /\ raised' = raised
             ELSE pc' = Finally /\ raised' = "OSError"
  /\ UNCHANGED <<error, jobVars, harnessVars, failures,
                 wim, fileVars, mountVars, usbVars, output_written,
                 wim_info, pruneVars, calls>>

\* Mutant: the cleanup is run with check=True, an error status raises.
RaisedByChecked(outcome, pending) == IF outcome = "ok" THEN pending ELSE "OSError"

\* optimize_wim_image lines 177-186: subprocess.run raises only when the call itself
\* cannot be made; the exit status is dropped.
RaisedBy(outcome, pending) == IF outcome = "raise" THEN "OSError" ELSE pending

\* patch_wim line 70 and optimize_wim_image: DISM cleans up or reports an error (not
\* read), or the call itself raises.
OptimizeWimImage ==
  /\ pc = "optimize_wim_image"
  /\ log' = Append(log, "optimize_wim_image")
  /\ \E outcome \in {"ok", "error", "raise"} :
       /\ raised' = RaisedBy(outcome, raised)
       /\ failures' = IF outcome = "error" THEN failures \cup {"optimize_wim_image"}
                                          ELSE failures
  /\ pc' = Finally
  /\ UNCHANGED <<error, jobVars, harnessVars, wim, fileVars, mountVars, usbVars, output_written,
                 wim_info, pruneVars, calls>>

\* patch_wim lines 71-73 and unmount_wim: DISM unmounts with /commit or reports an
\* error (not read); rmtree then removes the mount directory, and raises or not when
\* the image is still mounted there.  An exception pending from the try block, or
\* rmtree's own, leaves patch_wim.
UnmountWim ==
  /\ pc = "unmount_wim"
  /\ log' = Append(log, "unmount_wim")
  /\ \E ok \in BOOLEAN, rm \in BOOLEAN :
       LET still == wim_mounted /\ ~ok
           removed == ~still \/ rm
       IN /\ wim_mounted' = still
          /\ mount_dir' = ~removed
          /\ failures' = IF still THEN failures \cup {"unmount_wim"} ELSE failures
          /\ IF ~removed
             THEN pc' = "failed" /\ error' = "OSError"
             ELSE IF raised # "none"
                  THEN pc' = "failed" /\ error' = raised
                  ELSE pc' = "optimize_wim_file" /\ error' = error
  /\ UNCHANGED <<jobVars, harnessVars, wim, fileVars, iso_mounted, raised, usbVars,
                 output_written, wim_info, pruneVars, calls>>

\* optimize_wim_file lines 153-156: os.rename raises when install.wim is missing.
OptimizeWimFile ==
  /\ pc = "optimize_wim_file"
  /\ log' = Append(log, "optimize_wim_file")
  /\ IF wim_file = "absent"
     THEN /\ pc' = "failed"
          /\ error' = "FileNotFoundError"
          /\ UNCHANGED fileVars
     ELSE /\ old_wim' = wim_file
          /\ wim_file' = "absent"
          /\ pc' = "export_image"
          /\ error' = error
  /\ UNCHANGED <<jobVars, harnessVars, failures,
                 wim, mountVars, raised, usbVars, output_written,
                 wim_info, pruneVars, calls>>

\* optimize_wim_file lines 160-171: DISM exports index 1 of the renamed file into the
\* original name, or reports an error (not read) leaving no or a partial file, or the
\* call is interrupted and raises.
ExportImage ==
  /\ pc = "export_image"
  /\ \/ /\ old_wim = "complete" /\ Len(wim) >= 1
        /\ wim_file' = "complete"
        /\ wim' = <<wim[1]>>
        /\ pc' = "remove_old_wim"
        /\ error' = error
        /\ failures' = failures
     \/ /\ wim_file' \in {"absent", "partial"}
        /\ wim' = wim
        /\ pc' = "remove_old_wim"
        /\ error' = error
        /\ failures' = failures \cup {"export_image"}
     \/ /\ wim_file' \in {"absent", "partial"}
        /\ wim' = wim
        /\ pc' = "failed"
        /\ error' = "KeyboardInterrupt"
        /\ failures' = failures \cup {"export_image"}
  /\ UNCHANGED <<jobVars, harnessVars, old_wim, mountVars, raised, usbVars, output_written,
                 log, wim_info, pruneVars, calls>>

\* optimize_wim_file line 173: os.remove(old_wim).
RemoveOldWim ==
  /\ pc = "remove_old_wim"
  /\ old_wim' = "absent"
  /\ pc' = "return_patch_wim"
  /\ UNCHANGED <<error, jobVars, harnessVars, failures,
                 wim, wim_file, mountVars, raised, usbVars, output_written,
                 log, wim_info, pruneVars, calls>>

\* create_custom_iso lines 25-26 repack after patch_wim; create_bootable_usb ends with it.
AfterPatchWim(c) == IF c = "CREATE_CUSTOM_ISO" THEN "create_iso_from_folder" ELSE "done"

\* patch_wim returns to the job that called it.
ReturnPatchWim ==
  /\ pc = "return_patch_wim"
  /\ pc' = AfterPatchWim(choice)
  /\ UNCHANGED <<error, jobVars, harnessVars, failures,
                 wim, fileVars, mountVars, raised, usbVars, output_written,
                 log, wim_info, pruneVars, calls>>

\* create_custom_iso line 26 and create_iso_from_folder.
CreateIsoFromFolder ==
  /\ pc = "create_iso_from_folder"
  /\ output_written' = TRUE
  /\ log' = Append(log, "create_iso_from_folder")
  /\ pc' = "done"
  /\ UNCHANGED <<error, jobVars, harnessVars, failures,
                 wim, fileVars, mountVars, raised, usbVars,
                 wim_info, pruneVars, calls>>

\* ------------------------------------------------------------------ --list-editions
\* main line 135 and mount_iso.
ListMountIso ==
  /\ pc = "list_mount_iso"
  /\ \E ok \in BOOLEAN : iso_mounted' = ok
  /\ log' = Append(log, "mount_iso")
  /\ pc' = "list_wim_indexes"
  /\ UNCHANGED <<error, jobVars, harnessVars, failures,
                 wim, fileVars, wim_mounted, mount_dir, raised, usbVars,
                 output_written, wim_info, pruneVars, calls>>

\* Mutant: an exception of the listing leaves main at once.
ListRaisedPropagates(kind) == "failed"

\* main lines 143-147: the finally clause unmounts an ISO, then sys.exit().
ListFinally(kind) == IF kind = ".iso" THEN "list_unmount_iso_raised" ELSE "failed"

\* main lines 140-142: list_wim_indexes and display_wim_editions on the WIM itself or
\* on the one inside the mounted ISO.  When the ISO is not mounted DISM prints an
\* error text, which the parser either rejects (ValueError) or reads as no edition.
ListWimIndexes ==
  /\ pc = "list_wim_indexes"
  /\ log' = Append(log, "list_wim_indexes")
  /\ IF list_editions = ".wim" \/ iso_mounted
     THEN /\ displayed' = list_wim_indexes(source)
          /\ pc' = IF list_editions = ".iso" THEN "list_unmount_iso" ELSE "exit"
          /\ error' = error
     ELSE \/ /\ displayed' = <<>>
             /\ pc' = "list_unmount_iso"
             /\ error' = error
          \/ /\ displayed' = displayed
             /\ pc' = ListFinally(list_editions)
             /\ error' = "ValueError"
  /\ UNCHANGED <<jobVars, held_elsewhere, parseVars, installVars, walkVars, progressVars,
                 failures,
                 wim, fileVars, mountVars, raised, usbVars,
                 output_written, wim_info, pruneVars, calls>>

\* main lines 144-147 and unmount_iso, then sys.exit() or the pending exception.
ListUnmountIso ==
  /\ pc \in {"list_unmount_iso", "list_unmount_iso_raised"}
  /\ \E ok \in BOOLEAN : iso_mounted' = IF ok THEN FALSE ELSE iso_mounted
  /\ log' = Append(log, "unmount_iso")
  /\ pc' = IF pc = "list_unmount_iso" THEN "exit" ELSE "failed"
  /\ UNCHANGED <<error, jobVars, harnessVars, failures,
                 wim, fileVars, wim_mounted, mount_dir, raised, usbVars,
                 output_written, wim_info, pruneVars, calls>>

\* The job as main starts it: an ISO or a USB job with any configured edition name, or
\* --list-editions on an ISO, a WIM or another file (the operation is then never
\* chosen and the configuration never read); any source image.
Init ==
  /\ pc = "main"
  /\ error = "none"
  /\ list_editions \in {"", ".iso", ".wim", "other"}
  /\ choice \in IF list_editions = "" THEN {"CREATE_CUSTOM_ISO", "CREATE_BOOTABLE_USB"}
                                       ELSE {"none"}
  /\ usb \in IF choice = "CREATE_BOOTABLE_USB" THEN UsbArgs ELSE {<<>>}
  /\ Edition \in IF list_editions = "" THEN Names ELSE {""}
  /\ source \in Contents({10})
  /\ wim = <<>>
  /\ wim_file = "absent"
  /\ old_wim = "absent"
  /\ iso_mounted = FALSE
  /\ wim_mounted = FALSE
  /\ mount_dir = FALSE
  /\ raised = "none"
  /\ format_arg = "none"
  /\ formatted = {}
  /\ volume_files = {}
  /\ output_written = FALSE
  /\ log = <<>>
  /\ wim_info = <<>>
  /\ edition_to_keep = NoEdition
  /\ new_info = <<>>
  /\ index_to_remove = 0
  /\ deletes = 0
  /\ calls = 0
  /\ failures = {}
  /\ HarnessIdle

Next ==
  \/ Main
  \/ ListMountIso
  \/ ListWimIndexes
  \/ ListUnmountIso
  \/ PrepareUsbDrive
  \/ FormatUsbDrive
  \/ MountIso
  \/ CopyFiles
  \/ UnmountIso
  \/ PatchWim
  \/ SelectEdition
  \/ DeleteOtherEditionsEntry
  \/ DeleteOtherEditionsLoop
  \/ DeleteWimIndex
  \/ SelectEditionReturn
  \/ MountWim
  \/ Customize
  \/ OptimizeWimImage
  \/ UnmountWim
  \/ OptimizeWimFile
  \/ ExportImage
  \/ RemoveOldWim
  \/ ReturnPatchWim
  \/ CreateIsoFromFolder

Spec == Init /\ [][Next]_vars

\* ------------------------------------------------------------------ list_wim_indexes, the text
\* Text is a sequence of characters; a word that holds no separator, newline or blank
\* stands as one character.
Whitespace == {" ", "\n"}

Digits == <<"0", "1", "2", "3", "4", "5", "6", "7", "8", "9">>

\* The decimal digits DISM prints for a number.
RECURSIVE Decimal(_)
Decimal(n) == IF n < 10 THEN <<Digits[n + 1]>> ELSE Append(Decimal(n \div 10), Digits[(n % 10) + 1])

\* The number a caller reads from decimal digits.
RECURSIVE Number(_)
Number(ds) ==
  IF ds = <<>> THEN 0
  ELSE 10 * Number(SubSeq(ds, 1, Len(ds) - 1))
       + (CHOOSE d \in 0..9 : Digits[d + 1] = ds[Len(ds)])

RECURSIVE Join(_, _)
Join(parts, sep) ==
  IF parts = <<>> THEN <<>>
  ELSE IF Len(parts) = 1 THEN parts[1]
  ELSE parts[1] \o sep \o Join(Tail(parts), sep)

\* One "key : value" line of an edition block as DISM prints it under layout l.
InfoLine(key, value, l, damage) ==
  CASE damage = "zero" -> <<key>> \o <<" ">> \o value
    [] damage = "two"  -> <<key>> \o l.pad \o <<":">> \o l.pad \o value \o <<":">> \o <<"x">>
    [] OTHER           -> <<key>> \o l.pad \o <<":">> \o l.pad \o value

\* The four lines of the block of edition e at index i (sample output, lines 127-136).
InfoBlock(e, i, l) ==
  LET damage(n) == IF l.block = i /\ l.line = n THEN l.kind ELSE "none"
  IN Join(<< InfoLine("Index", Decimal(i), l, damage(1)),
             InfoLine("Name", <<e.Name>>, l, damage(2)),
             InfoLine("Description", <<e.Description>>, l, damage(3)),
             InfoLine("Size", Decimal(e.Size) \o <<" ", "bytes">>, l, damage(4)) >>,
          <<"\n">>)

\* What DISM /get-WimInfo prints for image w (sample output, lines 121-136): two
\* header blocks, one block per edition, one footer block, blank lines between them.
DismOutput(w, l) ==
  Join(<< <<"\n", "Deployment Image Servicing and Management tool", "\n",
            "Version", ":", " ", "10.0.22621.1">>,
          <<"Details for image", " ", ":", " ", "E", ":", "/sources/install.wim">> >>
       \o [i \in 1..Len(w) |-> InfoBlock(w[i], i, l)]
       \o << <<"The operation completed successfully.", "\n">> >>,
       <<"\n", "\n">>)

\* str.split(sep): the pieces between the occurrences of sep, scanned left to right.
RECURSIVE split(_, _)
split(s, sep) ==
  LET hits == { i \in 1..(Len(s) - Len(sep) + 1) : SubSeq(s, i, i + Len(sep) - 1) = sep }
  IN IF hits = {} THEN <<s>>
     ELSE LET i == CHOOSE h \in hits : \A g \in hits : h <= g
          IN <<SubSeq(s, 1, i - 1)>> \o split(SubSeq(s, i + Len(sep), Len(s)), sep)

\* str.strip(): leading and trailing whitespace goes.
RECURSIVE strip(_)
strip(s) ==
  IF s # <<>> /\ s[1] \in Whitespace THEN strip(Tail(s))
  ELSE IF s # <<>> /\ s[Len(s)] \in Whitespace THEN strip(SubSeq(s, 1, Len(s) - 1))
  ELSE s

\* Mutant: the slice keeps the second header block.
SliceFromSecond(blocks) == SubSeq(blocks, 2, Len(blocks) - 1)

\* Line 145: result.stdout.split("\n\n")[2:-1]
indexes(blocks) == SubSeq(blocks, 3, Len(blocks) - 1)

\* Lines 147-148: tuple(map(str.strip, kv.split(":"))) for kv in index.split("\n")
Tuples(index) ==
  LET lines == split(index, <<"\n">>)
  IN [n \in 1..Len(lines) |->
        LET kv == split(lines[n], <<":">>) IN [j \in 1..Len(kv) |-> strip(kv[j])]]

\* Mutant: dict takes the first two elements of a longer tuple.
TakesLongTuples(t) == Len(t) >= 2

\* dict(iterable): every element has to be a sequence of length 2.
DictTakes(t) == Len(t) = 2

\* dict(iterable of pairs): the last pair of a key gives its value.
dict(pairs) ==
  [k \in { pairs[n][1] : n \in 1..Len(pairs) } |->
     pairs[CHOOSE n \in 1..Len(pairs) :
             /\ pairs[n][1] = k
             /\ \A m \in 1..Len(pairs) : pairs[m][1] = k => m <= n][2]]

\* Lines 105-118: DISM runs and its output is captured.
RunDism ==
  /\ pc = "run_dism"
  /\ stdout' = DismOutput(wim, layout)
  /\ pc' = "parse"
  /\ UNCHANGED <<error, jobVars, wim, fileVars, mountVars, raised, usbVars, output_written,
                 log, wim_info, pruneVars, calls, failures, displayed, walkVars, progressVars,
                 held_elsewhere, layout, parsed,
                 installVars>>

\* Lines 145-149: slice the blocks and build one dictionary per block; dict raises
\* ValueError on a tuple it does not take.
ParseStdout ==
  /\ pc = "parse"
  /\ LET blocks == indexes(split(stdout, <<"\n", "\n">>))
         tuples == [b \in 1..Len(blocks) |-> Tuples(blocks[b])]
     IN IF \A b \in 1..Len(blocks) : \A n \in 1..Len(tuples[b]) : DictTakes(tuples[b][n])
        THEN /\ parsed' = [b \in 1..Len(blocks) |-> dict(tuples[b])]
             /\ pc' = "parse_ret"
             /\ error' = error
        ELSE /\ parsed' = parsed
             /\ pc' = "failed"
             /\ error' = "ValueError"
  /\ UNCHANGED <<jobVars, wim, fileVars, mountVars, raised, usbVars, output_written,
                 log, wim_info, pruneVars, calls, failures, displayed, walkVars, progressVars,
                 held_elsewhere, layout, stdout,
                 installVars>>

\* The listings handed to the parser: every image, printed with or without blanks
\* around the separator, intact or with one line of one edition block damaged.
Layouts(w) ==
  { [pad |-> p, block |-> 0, line |-> 0, kind |-> "none"] : p \in {<<>>, <<" ">>} }
  \cup { [pad |-> p, block |-> b, line |-> n, kind |-> k] :
           p \in {<<>>, <<" ">>}, b \in 1..Len(w), n \in 1..4, k \in {"zero", "two"} }

ParseInit ==
  /\ pc = "run_dism"
  /\ error = "none"
  /\ choice = "none"
  /\ list_editions = ""
  /\ usb = <<>>
  /\ Edition = ""
  /\ source = <<>>
  /\ wim \in Contents({10})
  /\ wim_file = "complete"
  /\ old_wim = "absent"
  /\ iso_mounted = FALSE
  /\ wim_mounted = FALSE
  /\ mount_dir = FALSE
  /\ raised = "none"
  /\ format_arg = "none"
  /\ formatted = {}
  /\ volume_files = {}
  /\ output_written = FALSE
  /\ log = <<>>
  /\ wim_info = <<>>
  /\ edition_to_keep = NoEdition
  /\ new_info = <<>>
  /\ index_to_remove = 0
  /\ deletes = 0
  /\ calls = 0
  /\ failures = {}
  /\ held_elsewhere = FALSE
  /\ layout \in Layouts(wim)
  /\ stdout = <<>>
  /\ parsed = <<>>
  /\ installer_file = Missing
  /\ install_location = Missing
  /\ run_once = {}
  /\ at_entry = [installer |-> Missing, location |-> Missing]
  /\ displayed = <<>>
  /\ tree = NoTree
  /\ to_walk = <<>>
  /\ added = <<>>
  /\ ProgressIdle

ParseNext ==
  \/ RunDism
  \/ ParseStdout

ParseSpec == ParseInit /\ [][ParseNext]_vars

\* ------------------------------------------------------------------ direct calls of mount_wim
\* The caller holds the mount path of one call and calls mount_wim on the same file
\* again: the variables of the mount now describe the new call, and the image stays
\* mounted at the earlier path if it was.
MountAgain ==
  /\ pc = "customize"
  /\ calls < MaxCalls
  /\ calls' = calls + 1
  /\ held_elsewhere' = (held_elsewhere \/ wim_mounted)
  /\ wim_mounted' = FALSE
  /\ mount_dir' = FALSE
  /\ pc' = "mount_wim"
  /\ UNCHANGED <<error, jobVars, wim, fileVars, iso_mounted, raised, usbVars, output_written,
                 log, wim_info, pruneVars, failures, parseVars, installVars, displayed,
                 walkVars, progressVars>>

MountInit ==
  /\ pc = "mount_wim"
  /\ error = "none"
  /\ choice = "none"
  /\ list_editions = ""
  /\ usb = <<>>
  /\ Edition = ""
  /\ source = <<>>
  /\ wim \in Contents(Sizes)
  /\ wim_file \in {"complete", "absent"}
  /\ old_wim = "absent"
  /\ iso_mounted = FALSE
  /\ wim_mounted = FALSE
  /\ mount_dir = FALSE
  /\ raised = "none"
  /\ format_arg = "none"
  /\ formatted = {}
  /\ volume_files = {}
  /\ output_written = FALSE
  /\ log = <<>>
  /\ wim_info = <<>>
  /\ edition_to_keep = NoEdition
  /\ new_info = <<>>
  /\ index_to_remove = 0
  /\ deletes = 0
  /\ calls = 1
  /\ failures = {}
  /\ HarnessIdle

MountNext ==
  \/ MountWim
  \/ MountAgain

MountSpec == MountInit /\ [][MountNext]_vars

\* ------------------------------------------------------------------ Installer.install
\* The two paths are apart: neither lies inside the other (as in the tests, lines 15-19).

\* Mutant: a path that is neither a file nor a folder is passed over in silence.
BranchWithoutElse(f) ==
  CASE f.kind = "dir"  -> "install_rmtree"
    [] f.kind = "file" -> "install_extract"
    [] OTHER           -> "install_ret"

\* Lines 46, 50, 63: os.path.isdir, os.path.isfile, else raise ValueError.
Branch(f) ==
  CASE f.kind = "dir"  -> "install_rmtree"
    [] f.kind = "file" -> "install_extract"
    [] OTHER           -> "failed"

\* Mutant: the folder at install_location is never removed before the copy.
NeverExists(l) == FALSE

\* Line 47: os.path.exists(self.install_location)
Exists(l) == l.kind # "missing"

\* Lines 43-46, 50, 63-64: make install_location when it is missing, then branch on
\* what installer_file is.
InstallEntry ==
  /\ pc = "install"
  /\ install_location' = IF Exists(install_location) THEN install_location ELSE Folder({})
  /\ pc' = Branch(installer_file)
  /\ error' = IF Branch(installer_file) = "failed" THEN "ValueError" ELSE error
  /\ UNCHANGED <<jobVars, wim, fileVars, mountVars, raised, usbVars, output_written,
                 log, wim_info, pruneVars, calls, failures, displayed, walkVars, progressVars,
                 held_elsewhere, parseVars,
                 installer_file, run_once, at_entry>>

\* Lines 47-48: shutil.rmtree(self.install_location) when it exists.
InstallRmtree ==
  /\ pc = "install_rmtree"
  /\ install_location' = IF Exists(install_location) THEN Missing ELSE install_location
  /\ pc' = "install_copytree"
  /\ UNCHANGED <<error, jobVars, wim, fileVars, mountVars, raised, usbVars, output_written,
                 log, wim_info, pruneVars, calls, failures, displayed, walkVars, progressVars,
                 held_elsewhere, parseVars,
                 installer_file, run_once, at_entry>>

\* Line 49: shutil.copytree raises FileExistsError when the destination exists.
InstallCopytree ==
  /\ pc = "install_copytree"
  /\ IF install_location.kind # "missing"
     THEN /\ pc' = "failed"
          /\ error' = "FileExistsError"
          /\ install_location' = install_location
     ELSE /\ pc' = "install_ret"
          /\ error' = error
          /\ install_location' = Folder(installer_file.files)
  /\ UNCHANGED <<jobVars, wim, fileVars, mountVars, raised, usbVars, output_written,
                 log, wim_info, pruneVars, calls, failures, displayed, walkVars, progressVars,
                 held_elsewhere, parseVars,
                 installer_file, run_once, at_entry>>

\* Lines 51-56: patool extracts the archive's members into install_location, or
\* raises PatoolError on a file it cannot extract.
InstallExtract ==
  /\ pc = "install_extract"
  /\ IF installer_file.archive
     THEN /\ install_location' = Folder(install_location.files \cup installer_file.files)
          /\ pc' = "install_ret"
     ELSE /\ install_location' = install_location
          /\ pc' = "install_move"
  /\ UNCHANGED <<error, jobVars, wim, fileVars, mountVars, raised, usbVars, output_written,
                 log, wim_info, pruneVars, calls, failures, displayed, walkVars, progressVars,
                 held_elsewhere, parseVars,
                 installer_file, run_once, at_entry>>

\* Lines 57-62: the file is moved into install_location and registered to run once.
InstallMove ==
  /\ pc = "install_move"
  /\ install_location' = Folder(install_location.files \cup installer_file.files)
  /\ installer_file' = Missing
  /\ run_once' = run_once \cup {"install program_name"}
  /\ pc' = "install_ret"
  /\ UNCHANGED <<error, jobVars, wim, fileVars, mountVars, raised, usbVars, output_written,
                 log, wim_info, pruneVars, calls, failures, displayed, walkVars, progressVars,
                 held_elsewhere, parseVars,
                 at_entry>>

\* install is called with installer_file missing, a folder, an archive or a plain
\* file, and install_location missing or a folder with any files.
InstallInit ==
  /\ pc = "install"
  /\ error = "none"
  /\ choice = "none"
  /\ list_editions = ""
  /\ usb = <<>>
  /\ Edition = ""
  /\ source = <<>>
  /\ wim = <<>>
  /\ wim_file = "absent"
  /\ old_wim = "absent"
  /\ iso_mounted = FALSE
  /\ wim_mounted = FALSE
  /\ mount_dir = FALSE
  /\ raised = "none"
  /\ format_arg = "none"
  /\ formatted = {}
  /\ volume_files = {}
  /\ output_written = FALSE
  /\ log = <<>>
  /\ wim_info = <<>>
  /\ edition_to_keep = NoEdition
  /\ new_info = <<>>
  /\ index_to_remove = 0
  /\ deletes = 0
  /\ calls = 0
  /\ failures = {}
  /\ held_elsewhere = FALSE
  /\ layout = NoLayout
  /\ stdout = <<>>
  /\ parsed = <<>>
  /\ installer_file \in {Missing} \cup { Folder(fs) : fs \in SUBSET RelPaths }
                        \cup { File(fs, TRUE) : fs \in SUBSET RelPaths }
                        \cup { File({"installer_file"}, FALSE) }
  /\ install_location \in {Missing} \cup { Folder(fs) : fs \in SUBSET (RelPaths \cup {"old.dll"}) }
  /\ run_once = {}
  /\ at_entry = [installer |-> installer_file, location |-> install_location]
  /\ displayed = <<>>
  /\ tree = NoTree
  /\ to_walk = <<>>
  /\ added = <<>>
  /\ ProgressIdle

InstallNext ==
  \/ InstallEntry
  \/ InstallRmtree
  \/ InstallCopytree
  \/ InstallExtract
  \/ InstallMove

InstallSpec == InstallInit /\ [][InstallNext]_vars

\* ------------------------------------------------------------------ add_files_to_iso
\* File and directory names, in ascending order.
TreeNames == <<"a", "b">>

\* The trees of depth at most d under directory p: every name is absent, a file, or a
\* directory with a tree of depth at most d - 1 under it.
RECURSIVE Level(_, _, _)
RECURSIVE Node(_, _)
Level(p, d, k) ==
  IF d = 0 \/ k > Len(TreeNames) THEN { [dirs |-> {}, files |-> {}] }
  ELSE { [dirs |-> x.dirs \cup y.dirs, files |-> x.files \cup y.files] :
           x \in Node(Append(p, TreeNames[k]), d), y \in Level(p, d, k + 1) }
Node(p, d) ==
  { [dirs |-> {}, files |-> {}], [dirs |-> {}, files |-> {p}] }
  \cup { [dirs |-> {p} \cup t.dirs, files |-> t.files] : t \in Level(p, d - 1, 1) }

\* The entries of directory root that lie in set, in the order the directory lists them.
Listing(root, set, descending) ==
  LET ks == SelectSeq([k \in 1..Len(TreeNames) |->
                         IF descending THEN Len(TreeNames) + 1 - k ELSE k],
                      LAMBDA k : Append(root, TreeNames[k]) \in set)
  IN [n \in 1..Len(ks) |-> Append(root, TreeNames[ks[n]])]

\* os.path.relpath(abs, source_path): the names joined by the Windows separator.
relpath(p) == Join([n \in 1..Len(p) |-> <<p[n]>>], <<"\\">>)

\* os.path.join(iso_path, rel) with iso_path "/" and .replace("\\", "/") (lines 24, 30).
UdfPath(p) ==
  LET joined == <<"/">> \o relpath(p)
  IN [n \in 1..Len(joined) |-> IF joined[n] = "\\" THEN "/" ELSE joined[n]]

\* Mutant: the files of a directory are added before its subdirectories.
FilesThenDirs(ds, fs) == fs \o ds

\* Lines 21-33: the loop over dirs comes before the loop over files.
DirsThenFiles(ds, fs) == ds \o fs

\* Lines 20-33, one pass of the outer loop: os.walk yields the next directory top-down,
\* its subdirectories are added, then its files; the subdirectories are walked next.
AddFilesToIso ==
  /\ pc = "add_files_to_iso"
  /\ to_walk # <<>>
  /\ LET root == Head(to_walk)
         dirs == Listing(root, tree.dirs, tree.descending)
         files == Listing(root, tree.files, tree.descending)
     IN /\ added' = added \o DirsThenFiles(
                       [n \in 1..Len(dirs) |-> [dir |-> TRUE, path |-> dirs[n],
                                                udf_path |-> UdfPath(dirs[n])]],
                       [n \in 1..Len(files) |-> [dir |-> FALSE, path |-> files[n],
                                                 udf_path |-> UdfPath(files[n])]])
        /\ to_walk' = dirs \o Tail(to_walk)
  /\ UNCHANGED <<pc, error, jobVars, wim, fileVars, mountVars, raised, usbVars,
                 output_written, log, wim_info, pruneVars, calls, failures, displayed,
                 held_elsewhere, parseVars, installVars, tree, progressVars>>

\* create_iso_from_folder lines 50-53: the walk is over, the ISO is written and closed.
IsoWrite ==
  /\ pc = "add_files_to_iso"
  /\ to_walk = <<>>
  /\ output_written' = TRUE
  /\ pc' = "iso_written"
  /\ UNCHANGED <<error, jobVars, wim, fileVars, mountVars, raised, usbVars,
                 log, wim_info, pruneVars, calls, failures, displayed,
                 held_elsewhere, parseVars, installVars, walkVars, progressVars>>

\* create_iso_from_folder on any tree of depth at most MaxDepth, listed in either order.
WalkInit ==
  /\ pc = "add_files_to_iso"
  /\ error = "none"
  /\ choice = "none"
  /\ list_editions = ""
  /\ usb = <<>>
  /\ Edition = ""
  /\ source = <<>>
  /\ wim = <<>>
  /\ wim_file = "absent"
  /\ old_wim = "absent"
  /\ iso_mounted = FALSE
  /\ wim_mounted = FALSE
  /\ mount_dir = FALSE
  /\ raised = "none"
  /\ format_arg = "none"
  /\ formatted = {}
  /\ volume_files = {}
  /\ output_written = FALSE
  /\ log = <<>>
  /\ wim_info = <<>>
  /\ edition_to_keep = NoEdition
  /\ new_info = <<>>
  /\ index_to_remove = 0
  /\ deletes = 0
  /\ calls = 0
  /\ failures = {}
  /\ held_elsewhere = FALSE
  /\ layout = NoLayout
  /\ stdout = <<>>
  /\ parsed = <<>>
  /\ installer_file = Missing
  /\ install_location = Missing
  /\ run_once = {}
  /\ at_entry = [installer |-> Missing, location |-> Missing]
  /\ displayed = <<>>
  /\ tree \in { [dirs |-> t.dirs, files |-> t.files, descending |-> o] :
                  t \in Level(<<>>, MaxDepth, 1), o \in BOOLEAN }
  /\ to_walk = << <<>> >>
  /\ added = <<>>
  /\ ProgressIdle

WalkNext ==
  \/ AddFilesToIso
  \/ IsoWrite

WalkSpec == WalkInit /\ [][WalkNext]_vars

\* ------------------------------------------------------------------ show_progress
\* mount_wim, unmount_wim and copy_files start the external process with its output on
\* a pipe, start stdout_thread on show_progress, wait for the process and join the
\* thread.  The process is the environment: it prints its lines, blocking while the
\* pipe is full, and exits, which closes the pipe.
otherVars == <<error, jobVars, wim, fileVars, mountVars, raised, usbVars, output_written,
               log, wim_info, pruneVars, calls, failures, held_elsewhere, parseVars,
               installVars, displayed, walkVars>>

\* subprocess.Popen(..., stdout=subprocess.PIPE) (wim.py:25-36, 59-68; utils.py:106-119)
Popen ==
  /\ pc = "popen"
  /\ proc' = [proc EXCEPT !.state = "running"]
  /\ pc' = "thread_start"
  /\ UNCHANGED <<otherVars, operation, pipe, thread, shown>>

\* stdout_thread.start()
ThreadStart ==
  /\ pc = "thread_start"
  /\ thread' = "readline"
  /\ pc' = "proc_wait"
  /\ UNCHANGED <<otherVars, operation, proc, pipe, shown>>

\* proc.wait() returns when the process has exited.
ProcWait ==
  /\ pc = "proc_wait"
  /\ proc.state = "exited"
  /\ pc' = "thread_join"
  /\ UNCHANGED <<otherVars, progressVars>>

\* Mutant: the thread is not joined.
JoinSkipped(t) == TRUE

\* stdout_thread.join() returns when show_progress has returned.
JoinReturns(t) == t = "terminated"

ThreadJoin ==
  /\ pc = "thread_join"
  /\ JoinReturns(thread)
  /\ pc' = "returned"
  /\ UNCHANGED <<otherVars, progressVars>>

\* show_progress lines 86-89: readline blocks until a line is there or the pipe is at
\* end-of-stream; the empty string at end-of-stream ends the loop.
Readline ==
  /\ thread = "readline"
  /\ pipe > 0 \/ proc.state = "exited"
  /\ IF pipe > 0
     THEN pipe' = pipe - 1 /\ thread' = "print"
     ELSE pipe' = pipe /\ thread' = "last_print"
  /\ UNCHANGED <<pc, otherVars, operation, proc, shown>>

\* show_progress lines 90-93: the line is printed over the previous one.
PrintProgress ==
  /\ thread = "print"
  /\ shown' = shown + 1
  /\ thread' = "readline"
  /\ UNCHANGED <<pc, otherVars, operation, proc, pipe>>

\* show_progress line 95: the last line is blanked and the thread ends.
LastPrint ==
  /\ thread = "last_print"
  /\ thread' = "terminated"
  /\ UNCHANGED <<pc, otherVars, operation, proc, pipe, shown>>

\* The process prints a line of progress; the write blocks while the pipe is full.
ProcessWrites ==
  /\ proc.state = "running"
  /\ proc.left > 0
  /\ pipe < PipeCapacity
  /\ pipe' = pipe + 1
  /\ proc' = [proc EXCEPT !.left = proc.left - 1]
  /\ UNCHANGED <<pc, otherVars, operation, thread, shown>>

\* The process exits with a status of its own when it has printed everything.
ProcessExits ==
  /\ proc.state = "running"
  /\ proc.left = 0
  /\ \E st \in {"ok", "error"} : proc' = [proc EXCEPT !.state = "exited", !.status = st]
  /\ UNCHANGED <<pc, otherVars, operation, pipe, thread, shown>>

\* One of the three functions is called; the process will print up to MaxLines lines.
ProgressInit ==
  /\ pc = "popen"
  /\ error = "none"
  /\ choice = "none"
  /\ list_editions = ""
  /\ usb = <<>>
  /\ Edition = ""
  /\ source = <<>>
  /\ wim = <<>>
  /\ wim_file = "absent"
  /\ old_wim = "absent"
  /\ iso_mounted = FALSE
  /\ wim_mounted = FALSE
  /\ mount_dir = FALSE
  /\ raised = "none"
  /\ format_arg = "none"
  /\ formatted = {}
  /\ volume_files = {}
  /\ output_written = FALSE
  /\ log = <<>>
  /\ wim_info = <<>>
  /\ edition_to_keep = NoEdition
  /\ new_info = <<>>
  /\ index_to_remove = 0
  /\ deletes = 0
  /\ calls = 0
  /\ failures = {}
  /\ held_elsewhere = FALSE
  /\ layout = NoLayout
  /\ stdout = <<>>
  /\ parsed = <<>>
  /\ installer_file = Missing
  /\ install_location = Missing
  /\ run_once = {}
  /\ at_entry = [installer |-> Missing, location |-> Missing]
  /\ displayed = <<>>
  /\ tree = NoTree
  /\ to_walk = <<>>
  /\ added = <<>>
  /\ operation \in {"mount_wim", "unmount_wim", "copy_files"}
  /\ proc \in { [state |-> "none", left |-> n, status |-> "none"] : n \in 0..MaxLines }
  /\ pipe = 0
  /\ thread = "not_started"
  /\ shown = 0

MainSteps == Popen \/ ThreadStart \/ ProcWait \/ ThreadJoin
SidecarSteps == Readline \/ PrintProgress \/ LastPrint
ProcessSteps == ProcessWrites \/ ProcessExits

ProgressNext ==
  \/ Popen
  \/ ThreadStart
  \/ ProcWait
  \/ ThreadJoin
  \/ Readline
  \/ PrintProgress
  \/ LastPrint
  \/ ProcessWrites
  \/ ProcessExits

ProgressSpec == ProgressInit /\ [][ProgressNext]_vars

\* Each thread and the process take the steps they can take.
FairProgressSpec ==
  ProgressSpec /\ WF_vars(MainSteps) /\ WF_vars(SidecarSteps) /\ WF_vars(ProcessSteps)

\* ------------------------------------------------------------------ properties
Called(op) == \E i \in 1..Len(log) : log[i] = op
Count(op) == Cardinality({ i \in 1..Len(log) : log[i] = op })

\* The kept dictionary matches a record by (name, size).
Matches(rec, keep) == rec.Name = keep.Name /\ rec.Size = keep.Size
KeepInListing == \E i \in 1..Len(wim_info) : Matches(wim_info[i], edition_to_keep)

\* C1: when the keep edition is in the listing delete_other_editions was called on,
\* no delete is issued whose current index addresses the record matching it by
\* (name, size), and on return the listing is the kept edition alone, with index 1.
C1_KeepSurvives ==
  (calls >= 1 /\ KeepInListing) =>
    /\ pc = "prune_delete" =>
         /\ index_to_remove \in 1..Len(wim)
         /\ ~Matches(wim[index_to_remove], edition_to_keep)
    /\ pc = "prune_ret" =>
         /\ Len(wim) = 1
         /\ list_wim_indexes(wim)[1].Name = edition_to_keep.Name
         /\ list_wim_indexes(wim)[1].Index = 1

\* C1 witness: [A, B, C] with keep = B was pruned to [(B, 1)] by two deletions.
C1_Witness ==
  /\ pc = "prune_ret" /\ calls = 1 /\ deletes = 2
  /\ Len(wim_info) = 3 /\ wim_info[2].Name = "B"
  /\ Matches(wim_info[2], edition_to_keep)
  /\ Len(wim) = 1 /\ wim[1].Name = "B"

\* C2: when the keep edition is absent from the listing delete_other_editions was
\* called on, the call fails before any delete is issued: no delete operation is
\* counted, the image is unchanged and the call does not return normally.
C2_AbsentKeepFailsFirst ==
  (calls = 1 /\ ~KeepInListing /\ pc # "prune_entry") =>
    /\ deletes = 0
    /\ list_wim_indexes(wim) = wim_info
    /\ pc \notin {"prune_delete", "prune_ret"}

\* C3: when the keep edition is in the initial listing, a call of
\* delete_other_editions eventually returns.
C3_PruneTerminates ==
  (pc = "prune_entry" /\ KeepInListing) ~> (pc = "prune_ret")

\* C4: a call of delete_other_editions on an image that lists exactly one edition
\* issues no delete, leaves the listing unchanged and returns.
C4_IdempotentOnSingle ==
  (calls >= 1 /\ Len(wim_info) = 1 /\ pc # "prune_entry") =>
    /\ deletes = 0
    /\ list_wim_indexes(wim) = wim_info
    /\ pc \in {"prune_loop", "prune_ret"}

\* C4 witness: the repeat call on an image pruned from three editions has returned.
C4_Witness ==
  /\ calls = 2 /\ pc = "prune_ret" /\ deletes = 0
  /\ Len(wim_info) = 1 /\ Len(new_info) = 1 /\ list_wim_indexes(wim) = wim_info

\* C5: the test.txt write and the image cleanup run only while the image is mounted
\* at the mount path.
C5_WriteOnlyWhileMounted ==
  pc \in {"customize", "optimize_wim_image"} => wim_mounted

\* C6: once mount_wim has returned, unmount_wim is called exactly once before the job
\* ends or goes on, also when the try block raised; and after an exception in the try
\* block neither optimize_wim_file nor create_iso_from_folder is called.
C6_UnmountOnEveryExit ==
  /\ Count("unmount_wim") <= 1
  /\ (Called("mount_wim") /\ pc \notin {"customize", "optimize_wim_image", "unmount_wim"})
       => Count("unmount_wim") = 1
  /\ raised # "none" =>
       /\ pc \in {"unmount_wim", "failed"}
       /\ ~Called("optimize_wim_file")
       /\ ~Called("create_iso_from_folder")
       /\ ~output_written

\* C6 witness: the write of test.txt raised, unmount_wim ran, the job failed.
C6_Witness ==
  /\ pc = "failed" /\ raised = "OSError" /\ error = "OSError"
  /\ ~Called("optimize_wim_image")
  /\ log[Len(log)] = "unmount_wim"

\* C7: from the rename of optimize_wim_file on, install.wim or install.wim.old holds a
\* complete image.
C7_OriginalRecoverable ==
  (Called("optimize_wim_file") /\ error # "FileNotFoundError") =>
    (wim_file = "complete" \/ old_wim = "complete")

\* --usb names the home volume: its letter in either case, with or without a colon.
DenotesHome(arg) ==
  /\ Len(arg) \in {1, 2}
  /\ Upper(arg[1]) = Upper(home_drive[1])
  /\ Len(arg) = 2 => arg[2] = ":"

\* C8: for every --usb value that names the home volume, prepare_usb_drive refuses:
\* format_usb_drive is not called and nothing is copied onto a volume.
C8_HomeVolumeRefused ==
  (choice = "CREATE_BOOTABLE_USB" /\ DenotesHome(usb)) =>
    /\ pc # "format_usb_drive"
    /\ format_arg = "none"
    /\ volume_files = {}

\* C9: when prepare_usb_drive refuses, the job has ended with that error and nothing
\* was done before: no format, no ISO mount, no copy, no step of patch_wim.
C9_RefusalBeforeAnyAction ==
  error = "SafetyViolation" =>
    /\ pc = "failed"
    /\ log = <<>>
    /\ format_arg = "none" /\ formatted = {} /\ volume_files = {}
    /\ ~iso_mounted /\ ~wim_mounted /\ ~mount_dir
    /\ wim_file = "absent" /\ deletes = 0

\* C9 witness: --usb C was refused.
C9_Witness ==
  /\ error = "SafetyViolation" /\ pc = "failed"
  /\ choice = "CREATE_BOOTABLE_USB" /\ usb = <<"C">>

\* The configured edition names no record of the listing patch_wim read.
Unresolved == wim_info # <<>> /\ Edition \notin valid_indexes(wim_info)

JobStages(c) ==
  (IF c = "CREATE_BOOTABLE_USB" THEN <<"format_usb_drive">> ELSE <<>>)
  \o <<"mount_iso", "copy_files", "unmount_iso", "list_wim_indexes">>
  \o <<"select_edition", "delete_other_editions">>
  \o <<"mount_wim", "customize", "optimize_wim_image", "unmount_wim", "optimize_wim_file">>
  \o (IF c = "CREATE_CUSTOM_ISO" THEN <<"create_iso_from_folder">> ELSE <<>>)

\* C11: every job that ends successfully has run every stage exactly once in the fixed
\* order, SELECT_EDITION and PRUNE before MOUNT included (a USB job formats first and
\* has no FINALIZE).
C11_NoStageSkipped ==
  pc = "done" => log = JobStages(choice)

\* The dictionary list_wim_indexes is to return for edition e at index i.
Record(e, i) ==
  [k \in {<<"Index">>, <<"Name">>, <<"Description">>, <<"Size">>} |->
     CASE k = <<"Index">>       -> Decimal(i)
       [] k = <<"Name">>        -> <<e.Name>>
       [] k = <<"Description">> -> <<e.Description>>
       [] OTHER                 -> Decimal(e.Size) \o <<" ", "bytes">>]

\* The dictionary as the model's listing holds it: numbers read, words unwrapped.
Listed(d) ==
  [Index |-> Number(d[<<"Index">>]), Name |-> d[<<"Name">>][1],
   Description |-> d[<<"Description">>][1], Size |-> Number(<<d[<<"Size">>][1], d[<<"Size">>][2]>>)]

\* C12: on a well-formed listing of N editions (two header blocks, N edition blocks,
\* one footer block, blank lines between) list_wim_indexes returns, without error,
\* exactly N dictionaries in source order, the i-th with Index i and the trimmed
\* key/value pairs of the i-th block.
C12_ParsesWellFormedListing ==
  (layout.kind = "none" /\ pc \notin {"run_dism", "parse"}) =>
     /\ pc = "parse_ret"
     /\ Len(parsed) = Len(wim)
     /\ \A i \in 1..Len(wim) : parsed[i] = Record(wim[i], i)
     /\ [i \in 1..Len(parsed) |-> Listed(parsed[i])] = list_wim_indexes(wim)

C12_Witness ==
  /\ pc = "parse_ret"
  /\ Len(parsed) = MaxEditions
  /\ layout.pad = <<" ">>
  /\ parsed[2][<<"Index">>] = <<"2">>

\* C13: on a listing with an edition block one of whose lines does not split on the
\* separator into exactly a key and a value (no separator, or a second one inside the
\* value) list_wim_indexes fails with ValueError and returns no dictionary.
C13_MalformedLineFails ==
  (layout.kind \in {"zero", "two"} /\ pc \notin {"run_dism", "parse"}) =>
     /\ pc = "failed"
     /\ error = "ValueError"
     /\ parsed = <<>>

C13_Witness ==
  /\ pc = "failed"
  /\ error = "ValueError"
  /\ layout.kind = "two"
  /\ layout.block = 2
  /\ layout.line = 2

\* C14: once unmount_wim has returned after a successful mount_wim the image is not
\* mounted and the mount directory is gone, and no mount is outstanding when the job
\* has ended.
C14_MountBalanced ==
  /\ (Called("unmount_wim") /\ "mount_wim" \notin failures /\ pc # "failed") =>
        (~wim_mounted /\ ~mount_dir)
  /\ pc \in {"done", "failed"} => ~wim_mounted

\* C15: when the release of the mount fails the job is over with an error: neither
\* optimize_wim_file nor the repacking runs.
C15_UnmountFailureFatal ==
  "unmount_wim" \in failures =>
     (pc = "failed" /\ ~Called("optimize_wim_file") /\ ~output_written)

\* C16: an error reported by the cleanup command of optimize_wim_image is not fatal:
\* no exception is pending from it, the job goes on through unmount_wim,
\* optimize_wim_file and (ISO job) the repacking, and ends in failure only if the
\* extraction, the unmount or the export failed as well.
C16_CleanupErrorNotFatal ==
  "optimize_wim_image" \in failures =>
     /\ raised = "none"
     /\ pc \in {"unmount_wim", "optimize_wim_file", "export_image", "remove_old_wim",
                "return_patch_wim", "create_iso_from_folder", "done", "failed"}
     /\ pc = "failed" => failures \cap {"copy_files", "unmount_wim", "export_image"} # {}
     /\ pc = "done" =>
          /\ Called("unmount_wim")
          /\ Called("optimize_wim_file")
          /\ choice = "CREATE_CUSTOM_ISO" => output_written

C16_Witness ==
  /\ failures = {"optimize_wim_image"}
  /\ pc = "done"
  /\ output_written

\* C17: the success line is printed only when no fatal step failed: a job whose
\* extraction, mount, edition deletion, unmount or export failed does not end with it.
C17_DoneOnlyWithoutFailure ==
  pc = "done" =>
     failures \cap {"copy_files", "mount_wim", "delete_wim_index", "unmount_wim",
                    "export_image"} = {}

\* C18: mount_wim rejects a call for a file that is already mounted: such a call does
\* not return a mount path to its caller.
C18_SecondAcquireRejected ==
  held_elsewhere => pc \in {"mount_wim", "failed"}

\* C19: when installer_file is a folder, install returns with install_location a
\* folder whose relative file paths are exactly those of installer_file, whatever
\* install_location held before; installer_file is left as it was.
C19_FolderReplacesLocation ==
  (at_entry.installer.kind = "dir" /\ pc \notin {"install", "install_rmtree", "install_copytree"}) =>
     /\ pc = "install_ret"
     /\ install_location = Folder(at_entry.installer.files)
     /\ installer_file = at_entry.installer

C19_Witness ==
  /\ pc = "install_ret"
  /\ at_entry.installer = Folder({"setup.exe"})
  /\ at_entry.location = Folder({"old.dll", "data/app.ini"})
  /\ install_location.files = {"setup.exe"}

\* C20: when installer_file is neither a file nor a folder, install raises ValueError:
\* no file has come into install_location, installer_file is untouched and nothing is
\* registered in RunOnce.
C20_NeitherRaisesValueError ==
  (at_entry.installer.kind = "missing" /\ pc # "install") =>
     /\ pc = "failed"
     /\ error = "ValueError"
     /\ install_location.files = at_entry.location.files
     /\ installer_file = at_entry.installer
     /\ run_once = {}

C20_Witness ==
  /\ pc = "failed"
  /\ error = "ValueError"
  /\ at_entry.installer = Missing
  /\ at_entry.location = Folder({"old.dll"})

\* C22: every delete operation of delete_other_editions is issued with an index taken
\* from a listing of the image as it is at that moment: the listing was read after the
\* previous deletion and the image has not changed since.
C22_DeleteUsesFreshIndex ==
  pc = "prune_delete" =>
     /\ new_info = list_wim_indexes(wim)
     /\ \E i \in 1..Len(new_info) :
          /\ new_info[i].Index = index_to_remove
          /\ new_info[i] # edition_to_keep

C22_Witness ==
  /\ pc = "prune_delete"
  /\ deletes >= 1
  /\ Len(new_info) = MaxEditions - 1
  /\ Len(wim) = MaxEditions - 1

\* C25: in a USB job the drive letter handed to format_usb_drive is the drive letter
\* of drive_path, the volume that was compared with the home drive.
C25_FormatsCheckedVolume ==
  (choice = "CREATE_BOOTABLE_USB" /\ Called("format_usb_drive")) =>
     format_arg = drive_path[1]

C26_ListEditionsReadOnly ==
  list_editions # "" =>
     /\ pc \in {"main", "list_mount_iso", "list_wim_indexes", "list_unmount_iso",
                "list_unmount_iso_raised", "exit", "failed"}
     /\ \A i \in 1..Len(log) : log[i] \in {"mount_iso", "list_wim_indexes", "unmount_iso"}
     /\ Count("mount_iso") <= 1 /\ Count("list_wim_indexes") <= 1 /\ Count("unmount_iso") <= 1
     /\ wim = <<>> /\ wim_file = "absent" /\ old_wim = "absent"
     /\ ~wim_mounted /\ ~mount_dir
     /\ deletes = 0 /\ failures = {} /\ wim_info = <<>>
     /\ format_arg = "none" /\ formatted = {} /\ volume_files = {}
     /\ ~output_written
     /\ (pc \in {"exit", "failed"} /\ Called("mount_iso")) => Count("unmount_iso") = 1
     /\ (pc = "exit" /\ list_editions = ".iso") =>
           log = <<"mount_iso", "list_wim_indexes", "unmount_iso">>

C26_Witness ==
  /\ list_editions = ".iso"
  /\ pc = "failed"
  /\ error = "ValueError"
  /\ displayed = <<>>
  /\ log = <<"mount_iso", "list_wim_indexes", "unmount_iso">>

\* Path q lies inside directory p.
Inside(q, p) == Len(q) > Len(p) /\ SubSeq(q, 1, Len(p)) = p

Parent(p) == SubSeq(p, 1, Len(p) - 1)

\* C21: in the entries add_files_to_iso adds, the subdirectories of a directory come
\* before its files, a directory comes before everything inside it, no entry is added
\* twice, every path is the relative path with '/' separators, and when the walk is
\* over every directory and every file of the tree has been added.
C21_DirectoriesBeforeFiles ==
  /\ \A i, j \in 1..Len(added) :
       /\ (added[i].dir /\ ~added[j].dir /\ Parent(added[i].path) = Parent(added[j].path))
             => i < j
       /\ (added[i].dir /\ Inside(added[j].path, added[i].path)) => i < j
       /\ i # j => (added[i].path # added[j].path /\ added[i].udf_path # added[j].udf_path)
  /\ \A i \in 1..Len(added) :
       /\ added[i].udf_path = <<"/">> \o Join([n \in 1..Len(added[i].path) |->
                                                 <<added[i].path[n]>>], <<"/">>)
       /\ added[i].path \in (IF added[i].dir THEN tree.dirs ELSE tree.files)
  /\ pc = "iso_written" =>
       { added[i].path : i \in 1..Len(added) } = tree.dirs \cup tree.files

C21_Witness ==
  /\ pc = "iso_written"
  /\ tree.descending
  /\ tree.files = { <<"a">>, <<"b", "b">> }
  /\ tree.dirs = { <<"b">>, <<"b", "a">> }
  /\ Len(added) = 4

\* What the process printed and how it ended does not depend on the reader: at the
\* return every line was printed by the process, read and shown.
ReturnedAfterBoth ==
  /\ pc = "returned" =>
       /\ proc.state = "exited" /\ thread = "terminated"
       /\ proc.left = 0 /\ pipe = 0
  /\ thread \in {"last_print", "terminated"} => (proc.state = "exited" /\ pipe = 0)

\* C23: mount_wim, unmount_wim and copy_files return only after the process has exited
\* and the progress thread has ended; the thread ends once the output is at
\* end-of-stream; and under every interleaving the function returns.
C23_ProgressReaderHarmless ==
  /\ []ReturnedAfterBoth
  /\ (proc.state = "exited" /\ pipe = 0 /\ thread # "not_started") ~> (thread = "terminated")
  /\ <>(pc = "returned")

C23_Witness ==
  /\ pc = "returned"
  /\ operation = "copy_files"
  /\ shown = MaxLines
  /\ proc.status = "error"

====
